---- MODULE Spec2Model ----
(***************************************************************************)
(* Model of contour.py: the script that reads three solution-set CSV       *)
(* files, filters the rows by F, bins (E, n) into a 2-D density histogram, *)
(* smooths and normalizes it, draws one contour per data set on a shared   *)
(* figure and saves the figure as contour_overlap.png / .eps.              *)
(*                                                                         *)
(* Numbers.  Floats are modelled as exact fractions <<num, den>> in lowest *)
(* terms; <<0, 0>> is NaN (the result of 0/0) and <<1, 0>> is +inf.        *)
(* Units are chosen so that the program's constants are small integers:    *)
(* n is counted in 1e10 cm^-3, F in 1e-7, and histogram densities in       *)
(* units of one per bin area.                                              *)
(*                                                                         *)
(* Libraries.  numpy, scipy, pandas and matplotlib are modelled by what    *)
(* the calls made by the script do in the library versions that accept     *)
(* them (np.histogram2d still taking normed=True, i.e. numpy < 1.24).      *)
(***************************************************************************)
EXTENDS Integers, Sequences, FiniteSets, TLC

(***************************************************************************)
(* Bounds of the model.                                                    *)
(***************************************************************************)
\* rows per CSV file
MaxRows == 2
\* the bins argument of get_histogram (the script passes 200)
Bins == 4
\* rows / columns of a grid handed directly to normalize_array
MaxDim == 2
\* largest cell value of such a grid
MaxCell == 2
\* data sets of the colour cycle of section 4.5 of the specification
MaxDatasets == 5

(***************************************************************************)
(* Constants of the program.                                               *)
(***************************************************************************)
\* F_upper = 1E-6, in units of 1e-7
F_upper == 10
\* xmin=10, xmax=10000 (eV)
xmin == 10
xmax == 10000
\* ymin=1e11, ymax=2.61E12, in units of 1e10
ymin == 10
ymax == 261
\* lvl = [.1]
lvl == <<1, 10>>
\* filenames: the data sets in the order the script processes them
DatasetOrder == <<"k-9+", "k-10+", "na-7+">>
filenames ==
  [d \in {"k-9+", "k-10+", "na-7+"} |->
     CASE d = "k-9+" -> "./solution_set_k9+.csv"
       [] d = "k-10+" -> "./solution_set_k10+.csv"
       [] OTHER -> "./solution_set_na7+.csv"]
\* the colors= argument of the three ax.contour calls
ContourColor ==
  [d \in {"k-9+", "k-10+", "na-7+"} |->
     CASE d = "k-9+" -> "black" [] d = "k-10+" -> "red" [] OTHER -> "blue"]
\* the proxy rectangles and the labels handed to ax.legend
ProxyColorsSwapped == <<"black", "blue", "red">>
ProxyColors == <<"black", "red", "blue">>
LegendLabels == <<"K9+", "K10+", "Na7+">>
EmptyMessage == "\nThe overlap is empty! Exiting."

(***************************************************************************)
(* Floating point values as fractions.                                     *)
(***************************************************************************)
RECURSIVE GCD(_, _)
GCD(a, b) == IF b = 0 THEN a ELSE GCD(b, a % b)

NaN == <<0, 0>>
Inf == <<1, 0>>
Zero == <<0, 1>>
One == <<1, 1>>
IsNaN(v) == v = NaN
IsInf(v) == v = Inf
IsFinite(v) == v[2] # 0

\* n/d for n >= 0, d >= 0, in lowest terms; 0/0 is NaN and n/0 is inf
Frac(n, d) ==
  IF d = 0 THEN (IF n = 0 THEN NaN ELSE Inf)
  ELSE LET g == GCD(n, d) IN <<n \div g, d \div g>>

\* a > b, a < b, a == b as IEEE comparisons: every comparison with NaN is false
FGt(a, b) == ~IsNaN(a) /\ ~IsNaN(b) /\ a[1] * b[2] > b[1] * a[2]
FLt(a, b) == FGt(b, a)
FEq(a, b) == ~IsNaN(a) /\ ~IsNaN(b) /\ a = b

\* a / b on numpy float64 scalars: 0/0 and NaN operands give NaN, x/0 gives inf
FDiv(a, b) ==
  IF IsNaN(a) \/ IsNaN(b) THEN NaN
  ELSE IF IsInf(a) THEN (IF IsInf(b) THEN NaN ELSE Inf)
  ELSE IF IsInf(b) THEN Zero
  ELSE Frac(a[1] * b[2], a[2] * b[1])

FAdd(a, b) ==
  IF IsNaN(a) \/ IsNaN(b) THEN NaN
  ELSE IF IsInf(a) \/ IsInf(b) THEN Inf
  ELSE Frac(a[1] * b[2] + b[1] * a[2], a[2] * b[2])

\* w * a for an integer weight w >= 0
FScale(w, a) ==
  IF IsNaN(a) THEN NaN
  ELSE IF IsInf(a) THEN (IF w = 0 THEN NaN ELSE Inf)
  ELSE Frac(w * a[1], a[2])

(***************************************************************************)
(* Grids: a grid is a sequence of rows, a row a sequence of cells.  The    *)
(* code indexes from 0, the model from 1.                                  *)
(***************************************************************************)
NRows(array) == Len(array)
NCols(array) == Len(array[1])
Cells(array) == {array[i][j] : i \in 1..NRows(array), j \in 1..NCols(array)}

\* Python's max(iterable) / min(iterable): keep the first item, replace it by a
\* later item only when item > best (item < best)
RECURSIVE PyMaxFrom(_, _, _)
PyMaxFrom(s, i, best) ==
  IF i > Len(s) THEN best
  ELSE PyMaxFrom(s, i + 1, IF FGt(s[i], best) THEN s[i] ELSE best)
PyMax(s) == PyMaxFrom(s, 2, s[1])

RECURSIVE PyMinFrom(_, _, _)
PyMinFrom(s, i, best) ==
  IF i > Len(s) THEN best
  ELSE PyMinFrom(s, i + 1, IF FLt(s[i], best) THEN s[i] ELSE best)
PyMin(s) == PyMinFrom(s, 2, s[1])

\* determine_max_and_min(array): <<maximum_value, minimum_value>>
determine_min_and_max(array) ==
  << PyMin([r \in 1..Len(array) |-> PyMin(array[r])]),
     PyMax([r \in 1..Len(array) |-> PyMax(array[r])]) >>
determine_max_and_min(array) ==
  << PyMax([r \in 1..Len(array) |-> PyMax(array[r])]),
     PyMin([r \in 1..Len(array) |-> PyMin(array[r])]) >>

(***************************************************************************)
(* normalize_array.                                                        *)
(***************************************************************************)
\* the exit status of the interpreter: 0 on completion and on SystemExit with
\* no argument, 1 on an uncaught exception
ExitStatus(e) == IF e \in {"none", "SystemExit"} THEN 0 ELSE 1

\* what evaluating sys.exit() raises: the module never imports sys, so the name
\* lookup fails before exit is called
SysExit == "NameError"

\* the bound of the inner loop, range(len(array)): the number of rows
InnerBoundColumns(array) == Len(array[1])
InnerBound(array) == Len(array)

\* the two loops, array being updated in place; a column index past the end of
\* a row raises IndexError and leaves the cells written so far written
RECURSIVE NormLoop(_, _, _, _)
NormLoop(array, maximum_value, i, j) ==
  IF i >= Len(array) THEN [exc |-> "none", array |-> array]
  ELSE IF j >= InnerBound(array) THEN NormLoop(array, maximum_value, i + 1, 0)
  ELSE IF j >= Len(array[i + 1]) THEN [exc |-> "IndexError", array |-> array]
  ELSE NormLoop([array EXCEPT ![i + 1][j + 1] = FDiv(@, maximum_value)],
                maximum_value, i, j + 1)

\* the zero test: maximum_value == 0
IsEmptyMaximumNever(maximum_value) == FALSE
IsEmptyMaximum(maximum_value) == FEq(maximum_value, Zero)

\* normalize_array(array).  exc: "none" when the call returns, else the
\* exception that leaves it; array: the argument object after the call; out:
\* what was printed; ret: the value returned; same: ret is the argument object
normalize_array(array) ==
  LET maximum_value == determine_max_and_min(array)[1] IN
  IF IsEmptyMaximum(maximum_value)
  THEN [exc |-> SysExit, array |-> array, out |-> <<EmptyMessage>>,
        ret |-> <<>>, same |-> FALSE]
  ELSE LET r == NormLoop(array, maximum_value, 0, 0) IN
       IF r.exc = "none"
       THEN [exc |-> "none", array |-> r.array, out |-> <<>>,
             ret |-> r.array, same |-> TRUE]
       ELSE [exc |-> r.exc, array |-> r.array, out |-> <<>>,
             ret |-> <<>>, same |-> FALSE]

(***************************************************************************)
(* The table filter, the histogram and the Gaussian filter.                *)
(***************************************************************************)
AllCols == {"E", "n", "F"}

\* c = (df["F"] < F_upper): one boolean per row
RowMaskLeq(rows, threshold) == [r \in 1..Len(rows) |-> rows[r].F <= threshold]
RowMask(rows, threshold) == [r \in 1..Len(rows) |-> rows[r].F < threshold]

\* df[c]: the rows whose mask entry is true, in their order
RECURSIVE Masked(_, _)
Masked(rows, mask) ==
  IF rows = <<>> THEN <<>>
  ELSE (IF Head(mask) THEN <<Head(rows)>> ELSE <<>>)
       \o Masked(Tail(rows), Tail(mask))

\* c = (df["F"] < F_upper); df = df[c]
FilterRows(rows, threshold) == Masked(rows, RowMask(rows, threshold))

\* the bin of value v among bins equal bins of [lo, hi]; -1 outside the range.
\* The last bin is closed on the right.
BinIndex(v, lo, hi, bins) ==
  IF v < lo \/ v > hi THEN -1
  ELSE IF v = hi THEN bins - 1
  ELSE ((v - lo) * bins) \div (hi - lo)

\* np.histogram2d(x, y, bins, range, normed=True): the counts of the samples
\* that fall inside the range, divided by the bin area and by their total.
\* With no sample inside the range every cell is 0/0.
histogram2d(x, y, bins, x0, x1, y0, y1) ==
  LET inbin(i, j) == {r \in 1..Len(x) : BinIndex(x[r], x0, x1, bins) = i
                                        /\ BinIndex(y[r], y0, y1, bins) = j}
      s == Cardinality({r \in 1..Len(x) : BinIndex(x[r], x0, x1, bins) >= 0
                                          /\ BinIndex(y[r], y0, y1, bins) >= 0})
  IN [i \in 1..bins |-> [j \in 1..bins |->
        Frac(Cardinality(inbin(i - 1, j - 1)), s)]]

\* the bin edges, np.linspace(lo, hi, bins + 1)
Edges(lo, hi, bins) ==
  [e \in 1..(bins + 1) |-> Frac(lo * bins + (e - 1) * (hi - lo), bins)]

\* gaussian_filter(input, sigma=1.5): truncate=4.0 gives radius
\* int(4 * 1.5 + 0.5) = 6; the weights exp(-k^2 / (2 * 1.5^2)) are rounded to
\* tenths (10, 8, 4, 1, 0, 0, 0 for k = 0..6) and divided by their sum
KernelRadius == 6
GaussWeight(kk) == <<10, 8, 4, 1, 0, 0, 0>>[(IF kk < 0 THEN -kk ELSE kk) + 1]
GaussWeightSum ==
  LET RECURSIVE Sum(_)
      Sum(kk) == IF kk > KernelRadius THEN 0 ELSE GaussWeight(kk) + Sum(kk + 1)
  IN GaussWeight(0) + 2 * Sum(1)

\* mode="reflect": (d c b a | a b c d | d c b a)
RECURSIVE Reflect(_, _)
Reflect(p, n) ==
  IF p < 0 THEN Reflect(-p - 1, n)
  ELSE IF p >= n THEN Reflect(2 * n - 1 - p, n)
  ELSE p

\* the one-dimensional correlation of a line with the kernel
RECURSIVE WeightedSum(_, _, _)
WeightedSum(line, p, kk) ==
  IF kk > KernelRadius THEN Zero
  ELSE FAdd(FScale(GaussWeight(kk), line[Reflect(p + kk, Len(line)) + 1]),
            WeightedSum(line, p, kk + 1))
Correlate1d(line) ==
  [p \in 1..Len(line) |->
     FDiv(WeightedSum(line, p - 1, -KernelRadius), <<GaussWeightSum, 1>>)]

Transpose(array) ==
  [j \in 1..NCols(array) |-> [i \in 1..NRows(array) |-> array[i][j]]]

\* the filter is separable: along axis 0, then along axis 1
gaussian_filter(input) ==
  LET axis0 == Transpose([col \in 1..NCols(input) |->
                            Correlate1d(Transpose(input)[col])])
  IN [r \in 1..NRows(axis0) |-> Correlate1d(axis0[r])]

\* whether contour finds a line of the level in z: the level lies strictly
\* between the smallest and the largest valid cell
HasLines(z, level) == \E a, b \in Cells(z) : FLt(a, level) /\ FGt(b, level)

(***************************************************************************)
(* State.                                                                  *)
(***************************************************************************)
VARIABLES
  pc,        \* the statement the run is at
  k,         \* the index in DatasetOrder of the data set being processed
  df,        \* the module variable df: [cols, rows]
  c,         \* the module variable c: the row mask of the last filter
  heatmap,   \* the local heatmap of get_histogram (<<>> outside it)
  result,    \* the module variable result (<<>> before the first call returns)
  figOpen,   \* the figure exists and is not closed
  layers,    \* the contour sets of ax, in the order they were added
  legend,    \* the legend of ax: <<>> or the swatch/label pairs
  scale,     \* the axis scale of ax
  files,     \* the output files written, in the order of the writes
  stdout,    \* the lines printed
  exc,       \* "none" or the uncaught exception that ended the run
  before,    \* the argument of a direct call, as it was when the call was made
  ret,       \* what a direct call returned: [value, same]
  width,     \* the configured smoothing width, in tenths of a bin
  palette,   \* the ordered palette of the colour cycle
  ndata,     \* the number of data sets of the colour cycle
  assigned,  \* the colours the cycle has handed out, in data set order
  warned     \* the palette-exhausted warning has been logged

vars == <<pc, k, df, c, heatmap, result, figOpen, layers, legend, scale, files,
          stdout, exc, before, ret, width, palette, ndata, assigned, warned>>

pipeVars == <<k, df, c, heatmap, result, figOpen, layers, legend, scale, files>>
callVars == <<before, ret>>
cfgVars == <<width, palette, ndata, assigned, warned>>

(***************************************************************************)
(* The inputs: what pd.read_csv can find in a file.                        *)
(***************************************************************************)
\* the (E, n) of a row: in the first bin of both axes, on the last edge of
\* both axes (the last bin), and right of the range of E
Points == {<<xmin, ymin>>, <<xmax, ymax>>, <<2 * xmax, ymax>>}
\* F just below, on and just above the threshold
FVals == {F_upper - 1, F_upper, F_upper + 1}
Rows == {[E |-> p[1], n |-> p[2], F |-> f] : p \in Points, f \in FVals}
RECURSIVE SeqsUpTo(_, _)
SeqsUpTo(S, len) ==
  IF len = 0 THEN {<<>>}
  ELSE LET shorter == SeqsUpTo(S, len - 1)
       IN shorter \cup {Append(t, x) : t \in {u \in shorter : Len(u) = len - 1},
                                       x \in S}
\* a well-formed file with any rows, or a header-only file that lacks a column
FileTables ==
  {[cols |-> AllCols, rows |-> t] : t \in SeqsUpTo(Rows, MaxRows)}
  \cup {[cols |-> AllCols \ {col}, rows |-> <<>>] : col \in AllCols}

NoTable == [cols |-> {}, rows |-> <<>>]
NoRet == [value |-> <<>>, same |-> FALSE]

(***************************************************************************)
(* The run of the script.                                                  *)
(***************************************************************************)
InitPipe ==
  /\ pc = "Idle"
  /\ k = 1
  /\ df = NoTable
  /\ c = <<>>
  /\ heatmap = <<>>
  /\ result = <<>>
  /\ figOpen = FALSE
  /\ layers = <<>>
  /\ legend = <<>>
  /\ scale = "linear"
  /\ files = <<>>
  /\ stdout = <<>>
  /\ exc = "none"

InitUnused ==
  /\ before = <<>>
  /\ ret = NoRet
  /\ width = 0
  /\ palette = <<>>
  /\ ndata = 0
  /\ assigned = <<>>
  /\ warned = FALSE

Init == InitPipe /\ InitUnused

\* an uncaught exception ends the run where it is raised
Raise(e) ==
  /\ pc' = "Aborted"
  /\ exc' = e

\* fig = plt.figure(); ax = fig.add_subplot(111)
CreateFigure ==
  /\ pc = "Idle"
  /\ figOpen' = TRUE
  /\ pc' = "Loading"
  /\ UNCHANGED <<k, df, c, heatmap, result, layers, legend, scale, files, stdout,
                 exc, callVars, cfgVars>>

\* df = pd.read_csv(filenames[...], index_col=None)
LoadOk ==
  /\ pc = "Loading"
  /\ \E t \in FileTables : df' = t
  /\ pc' = "Filtering"
  /\ UNCHANGED <<k, c, heatmap, result, figOpen, layers, legend, scale, files,
                 stdout, exc, callVars, cfgVars>>

\* the file does not exist
LoadFail ==
  /\ pc = "Loading"
  /\ Raise("FileNotFoundError")
  /\ UNCHANGED <<pipeVars, stdout, callVars, cfgVars>>

\* c = (df["F"] < F_upper); df = df[c]
Filter ==
  /\ pc = "Filtering"
  /\ IF "F" \in df.cols
     THEN /\ c' = RowMask(df.rows, F_upper)
          /\ df' = [df EXCEPT !.rows = FilterRows(df.rows, F_upper)]
          /\ pc' = "Binning"
          /\ exc' = exc
     ELSE /\ Raise("KeyError")
          /\ UNCHANGED <<df, c>>
  /\ UNCHANGED <<k, heatmap, result, figOpen, layers, legend, scale, files,
                 stdout, callVars, cfgVars>>

\* get_histogram, to the histogram: x = df["E"]; y = df["n"];
\* heatmap, xedges, yedges = np.histogram2d(...)
Bin ==
  /\ pc = "Binning"
  /\ IF {"E", "n"} \subseteq df.cols
     THEN /\ heatmap' =
               histogram2d([r \in 1..Len(df.rows) |-> df.rows[r].E],
                           [r \in 1..Len(df.rows) |-> df.rows[r].n],
                           Bins, xmin, xmax, ymin, ymax)
          /\ pc' = "Smoothing"
          /\ exc' = exc
     ELSE /\ Raise("KeyError")
          /\ heatmap' = heatmap
  /\ UNCHANGED <<k, df, c, result, figOpen, layers, legend, scale, files, stdout,
                 callVars, cfgVars>>

\* heatmap = gaussian_filter(heatmap, sigma=1.5)
Smooth ==
  /\ pc = "Smoothing"
  /\ heatmap' = gaussian_filter(heatmap)
  /\ pc' = "Normalizing"
  /\ UNCHANGED <<k, df, c, result, figOpen, layers, legend, scale, files, stdout,
                 exc, callVars, cfgVars>>

\* heatmap = normalize_array(heatmap), and the rest of get_histogram: the
\* result dictionary with the transposed heatmap, the extent and the edges
Normalize ==
  /\ pc = "Normalizing"
  /\ LET r == normalize_array(heatmap) IN
     /\ stdout' = stdout \o r.out
     /\ IF r.exc = "none"
        THEN /\ heatmap' = <<>>
             /\ result' = [heatmap |-> Transpose(r.ret),
                           extent |-> <<Frac(xmin, 1), Frac(xmax, 1),
                                        Frac(ymin, 1), Frac(ymax, 1)>>,
                           xedges |-> Edges(xmin, xmax, Bins),
                           yedges |-> Edges(ymin, ymax, Bins)]
             /\ pc' = "Rendering"
             /\ exc' = exc
        ELSE /\ heatmap' = r.array
             /\ result' = result
             /\ Raise(r.exc)
  /\ UNCHANGED <<k, df, c, figOpen, layers, legend, scale, files, callVars,
                 cfgVars>>

\* what follows the contour call of data set number kk: the next data set's
\* read_csv, and the legend after the last one
AfterRenderSkipsLast(kk) ==
  IF kk < Len(DatasetOrder) - 1 THEN "Loading" ELSE "Legend"
AfterRender(kk) == IF kk < Len(DatasetOrder) THEN "Loading" ELSE "Legend"

\* ax.contour(result["heatmap"], extent=result["extent"], levels=lvl,
\*            colors=..., origin="lower")
Render ==
  /\ pc = "Rendering"
  /\ layers' = Append(layers,
                      [ds |-> DatasetOrder[k],
                       color |-> ContourColor[DatasetOrder[k]],
                       levels |-> <<lvl>>,
                       extent |-> result.extent,
                       lines |-> HasLines(result.heatmap, lvl)])
  /\ pc' = AfterRender(k)
  /\ k' = IF AfterRender(k) = "Loading" THEN k + 1 ELSE k
  /\ UNCHANGED <<df, c, heatmap, result, figOpen, legend, scale, files, stdout,
                 exc, callVars, cfgVars>>

\* proxy = [plt.Rectangle(..., fc=...), ...]; ax.legend(proxy, [labels])
Legend ==
  /\ pc = "Legend"
  /\ legend' = [i \in 1..Len(ProxyColors) |->
                  [fc |-> ProxyColors[i], label |-> LegendLabels[i]]]
  /\ pc' = "PlotSettings"
  /\ UNCHANGED <<k, df, c, heatmap, result, figOpen, layers, scale, files, stdout,
                 exc, callVars, cfgVars>>

\* ax.set(xscale="log", yscale="log"), the axis labels, plt.tight_layout()
PlotSettings ==
  /\ pc = "PlotSettings"
  /\ scale' = "log"
  /\ pc' = "SavePng"
  /\ UNCHANGED <<k, df, c, heatmap, result, figOpen, layers, legend, files,
                 stdout, exc, callVars, cfgVars>>

\* plt.savefig("contour_overlap.png", dpi=600, format="png")
SavePngOk ==
  /\ pc = "SavePng"
  /\ files' = Append(files, "contour_overlap.png")
  /\ pc' = "SaveEps"
  /\ UNCHANGED <<k, df, c, heatmap, result, figOpen, layers, legend, scale,
                 stdout, exc, callVars, cfgVars>>

\* the file cannot be written
SavePngFail ==
  /\ pc = "SavePng"
  /\ Raise("OSError")
  /\ UNCHANGED <<pipeVars, stdout, callVars, cfgVars>>

\* plt.savefig("contour_overlap.eps", format="eps")
SaveEpsOk ==
  /\ pc = "SaveEps"
  /\ files' = Append(files, "contour_overlap.eps")
  /\ pc' = "Close"
  /\ UNCHANGED <<k, df, c, heatmap, result, figOpen, layers, legend, scale,
                 stdout, exc, callVars, cfgVars>>

SaveEpsFail ==
  /\ pc = "SaveEps"
  /\ Raise("OSError")
  /\ UNCHANGED <<pipeVars, stdout, callVars, cfgVars>>

\* plt.close(), and the end of the script
Close ==
  /\ pc = "Close"
  /\ figOpen' = FALSE
  /\ pc' = "Done"
  /\ UNCHANGED <<k, df, c, heatmap, result, layers, legend, scale, files, stdout,
                 exc, callVars, cfgVars>>

Next ==
  \/ CreateFigure
  \/ LoadOk
  \/ LoadFail
  \/ Filter
  \/ Bin
  \/ Smooth
  \/ Normalize
  \/ Render
  \/ Legend
  \/ PlotSettings
  \/ SavePngOk
  \/ SavePngFail
  \/ SaveEpsOk
  \/ SaveEpsFail
  \/ Close

Spec == Init /\ [][Next]_vars

(***************************************************************************)
(* normalize_array called directly on a grid of any shape.                 *)
(***************************************************************************)
\* an empty cell, the smallest count and the largest
CellVals == {Frac(v, 1) : v \in {0, 1, MaxCell}}
Grids ==
  UNION {[1..rows -> [1..cols -> CellVals]] : rows \in 1..MaxDim,
                                               cols \in 1..MaxDim}

\* everything but pc and heatmap as the script starts
IdleExceptGrid ==
  /\ k = 1
  /\ df = NoTable
  /\ c = <<>>
  /\ result = <<>>
  /\ figOpen = FALSE
  /\ layers = <<>>
  /\ legend = <<>>
  /\ scale = "linear"
  /\ files = <<>>
  /\ stdout = <<>>
  /\ exc = "none"

InitNorm ==
  /\ pc = "NormCall"
  /\ heatmap \in Grids
  /\ IdleExceptGrid
  /\ InitUnused

\* array = heatmap; normalize_array(array)
NormCall ==
  /\ pc = "NormCall"
  /\ LET r == normalize_array(heatmap) IN
     /\ before' = heatmap
     /\ heatmap' = r.array
     /\ ret' = [value |-> r.ret, same |-> r.same]
     /\ stdout' = stdout \o r.out
     /\ exc' = r.exc
     /\ pc' = IF r.exc = "none" THEN "NormReturned" ELSE "Aborted"
  /\ UNCHANGED <<k, df, c, result, figOpen, layers, legend, scale, files,
                 cfgVars>>

NextNorm == NormCall

SpecNorm == InitNorm /\ [][NextNorm]_vars

(***************************************************************************)
(* The run with a configurable smoothing width (section 4.3 of the         *)
(* specification): the script itself always smooths with sigma = 1.5.      *)
(***************************************************************************)
\* sigma=1.5, in tenths
Sigma == 15
Widths == {0, Sigma}

\* the smoother of section 4.3: width zero passes the grid through
SmootherAlwaysFilters(grid, w) == gaussian_filter(grid)
Smoother(grid, w) == IF w = 0 THEN grid ELSE gaussian_filter(grid)

InitSmooth ==
  /\ InitPipe
  /\ before = <<>>
  /\ ret = NoRet
  /\ width \in Widths
  /\ palette = <<>>
  /\ ndata = 0
  /\ assigned = <<>>
  /\ warned = FALSE

\* the smoothing stage with the configured width; before keeps the histogram
\* as the stage received it
SmoothConfigured ==
  /\ pc = "Smoothing"
  /\ before' = heatmap
  /\ heatmap' = Smoother(heatmap, width)
  /\ pc' = "Normalizing"
  /\ UNCHANGED <<k, df, c, result, figOpen, layers, legend, scale, files, stdout,
                 exc, ret, cfgVars>>

NextSmooth ==
  \/ CreateFigure
  \/ LoadOk
  \/ LoadFail
  \/ Filter
  \/ Bin
  \/ SmoothConfigured
  \/ Normalize
  \/ Render
  \/ Legend
  \/ PlotSettings
  \/ SavePngOk
  \/ SavePngFail
  \/ SaveEpsOk
  \/ SaveEpsFail
  \/ Close

SpecSmooth == InitSmooth /\ [][NextSmooth]_vars

(***************************************************************************)
(* The colour cycle of section 4.5 of the specification: the script itself *)
(* names the colour of each of its three contour calls.                    *)
(***************************************************************************)
Colors == {"black", "red", "blue"}
Palettes ==
  {p \in UNION {[1..len -> Colors] : len \in 1..Cardinality(Colors)} :
     \A i, j \in 1..Len(p) : i # j => p[i] # p[j]}

\* the colour of the i-th data set: the palette, cycled
CycleColorClamped(p, i) == p[IF i > Len(p) THEN Len(p) ELSE i]
CycleColor(p, i) == p[((i - 1) % Len(p)) + 1]

InitCycle ==
  /\ pc = "Assigning"
  /\ heatmap = <<>>
  /\ IdleExceptGrid
  /\ before = <<>>
  /\ ret = NoRet
  /\ width = 0
  /\ palette \in Palettes
  /\ ndata \in 1..MaxDatasets
  /\ assigned = <<>>
  /\ warned = FALSE

\* the next data set takes the next colour of the cycle; running out of
\* distinct colours is logged and the run goes on
AssignColor ==
  /\ pc = "Assigning"
  /\ LET i == Len(assigned) + 1 IN
     /\ assigned' = Append(assigned, CycleColor(palette, i))
     /\ warned' = (warned \/ i > Len(palette))
     /\ pc' = IF i = ndata THEN "Assigned" ELSE "Assigning"
  /\ UNCHANGED <<pipeVars, stdout, exc, callVars, width, palette, ndata>>

NextCycle == AssignColor

SpecCycle == InitCycle /\ [][NextCycle]_vars

(***************************************************************************)
(* Properties.                                                             *)
(***************************************************************************)
\* the largest cell of a grid without NaN, as a number
GridMax(g) == CHOOSE m \in Cells(g) : \A v \in Cells(g) : ~FGt(v, m)
AllZero(g) == Cells(g) = {Zero}
IsSquare(g) == NRows(g) = NCols(g)
\* the grid g with every cell divided by m
Rescaled(g, m) ==
  [i \in 1..NRows(g) |-> [j \in 1..NCols(g) |-> FDiv(g[i][j], m)]]
NormalizedToUnity(orig, new) ==
  /\ GridMax(new) = One
  /\ new = Rescaled(orig, GridMax(orig))

\* C1, as claimed: for every grid with a positive cell, the grid that
\* normalize_array returns has maximum 1.0 and every cell is the original cell
\* divided by the original maximum.
C1_AnyGrid ==
  (pc = "NormReturned" /\ ~AllZero(before))
    => NormalizedToUnity(before, ret.value)

\* C1, amended: for every square grid with a positive cell, the grid that
\* normalize_array returns has maximum 1.0 and every cell is the original cell
\* divided by the original maximum.
C1_SquareGrid ==
  (pc = "NormReturned" /\ ~AllZero(before) /\ IsSquare(before))
    => NormalizedToUnity(before, ret.value)

\* C1 witness: a returned 2x2 grid that held a 1 beside its maximum 2
C1_Witness ==
  /\ pc = "NormReturned"
  /\ NRows(before) = 2 /\ NCols(before) = 2
  /\ before[1][1] = Frac(1, 1) /\ before[2][2] = Frac(2, 1)
  /\ ret.value[1][1] = Frac(1, 2)

\* C2: on an all-zero grid normalize_array divides nothing (the grid is as it
\* was, no NaN or inf in it), prints the empty-result message, returns no grid
\* and the run ends abnormally with a non-zero exit status.
C2_ZeroGridAborts ==
  (pc # "NormCall" /\ AllZero(before)) =>
    /\ pc = "Aborted"
    /\ heatmap = before
    /\ \A v \in Cells(heatmap) : IsFinite(v)
    /\ stdout = <<EmptyMessage>>
    /\ ret = NoRet
    /\ exc # "none"
    /\ ExitStatus(exc) # 0

\* C2 witness: the call on the all-zero 2x2 grid has ended
C2_Witness ==
  /\ pc = "Aborted"
  /\ before = <<<<Zero, Zero>>, <<Zero, Zero>>>>
  /\ exc = "NameError"

\* C10: on a grid with R rows, C >= R columns and a positive cell,
\* normalize_array divides the cells (i, j) with i < R and j < R once by the
\* original maximum, leaves the cells with j >= R as they were, changes the
\* argument in place and returns that same object.
C10_RowBoundedLoops ==
  (pc # "NormCall" /\ ~AllZero(before) /\ NCols(before) >= NRows(before)) =>
    /\ pc = "NormReturned"
    /\ NRows(heatmap) = NRows(before) /\ NCols(heatmap) = NCols(before)
    /\ \A i \in 1..NRows(before), j \in 1..NCols(before) :
         heatmap[i][j] = IF j <= NRows(before)
                         THEN FDiv(before[i][j], GridMax(before))
                         ELSE before[i][j]
    /\ ret.same
    /\ ret.value = heatmap

\* C10 witness: a 1x2 grid <<1, 2>> came back as <<1/2, 2>>
C10_Witness ==
  /\ pc = "NormReturned"
  /\ before = <<<<Frac(1, 1), Frac(2, 1)>>>>
  /\ heatmap = <<<<Frac(1, 2), Frac(2, 1)>>>>

\* the stages of get_histogram and what follows them for a data set
InHistogram == {"Binning", "Smoothing", "Normalizing"}
Exporting == {"SavePng", "SaveEps", "Close"}
\* df is a well-formed table whose rows the filter has all dropped
FilteredEmpty ==
  /\ pc # "Filtering"
  /\ df.cols = AllCols
  /\ df.rows = <<>>
  /\ c # <<>>
  /\ \A i \in 1..Len(c) : ~c[i]

\* C3: when every row of a data set's CSV has F >= F_upper, the filtered
\* table is empty, the grid handed to the normalizer is all-zero, and the run
\* aborts with the empty-result message before any output file is written.
C3_EmptyDatasetAborts ==
  FilteredEmpty =>
    /\ pc \in InHistogram \cup {"Aborted"}
    /\ pc = "Normalizing" => AllZero(heatmap)
    /\ pc = "Aborted" => EmptyMessage \in {stdout[i] : i \in 1..Len(stdout)}
    /\ files = <<>>

\* C4, as claimed: the exporter runs once and only after all three data sets
\* are rendered, and in every run that aborts neither output file has been
\* written.
C4_NoOutputOnAnyAbort ==
  /\ (pc \in Exporting \cup {"Done"} \/ files # <<>>) =>
       /\ Len(layers) = Len(DatasetOrder)
       /\ Len(files) <= 2
  /\ pc = "Done" => files = <<"contour_overlap.png", "contour_overlap.eps">>
  /\ pc = "Aborted" => files = <<>>

\* C4, amended: the exporter runs once and only after all three data sets are
\* rendered; a run that aborts before the export has written neither output
\* file, and a run that aborts in the export has written no
\* contour_overlap.eps and at most contour_overlap.png.
C4_NoOutputBeforeExport ==
  /\ (pc \in Exporting \cup {"Done"} \/ files # <<>>) =>
       /\ Len(layers) = Len(DatasetOrder)
       /\ Len(files) <= 2
  /\ pc = "Done" => files = <<"contour_overlap.png", "contour_overlap.eps">>
  /\ pc = "Aborted" =>
       /\ Len(layers) < Len(DatasetOrder) => files = <<>>
       /\ files \in {<<>>, <<"contour_overlap.png">>}

\* C4 witness: the second data set aborted after the first was rendered, and
\* nothing is written
C4_Witness ==
  /\ pc = "Aborted"
  /\ k = 2
  /\ Len(layers) = 1
  /\ files = <<>>

\* the indices of the rows with F below the threshold, and the n-th of them
KeptIndices(rows) == {i \in 1..Len(rows) : rows[i].F < F_upper}
NthKept(rows, nth) ==
  CHOOSE i \in KeptIndices(rows) :
    Cardinality({x \in KeptIndices(rows) : x <= i}) = nth

\* C5: the filter keeps exactly the rows with F strictly below the threshold,
\* in their order, and filtering the filtered table again gives the same table.
C5_FilterStrictAndIdempotent ==
  [][(pc = "Filtering" /\ pc' = "Binning") =>
       /\ df'.cols = df.cols
       /\ Len(df'.rows) = Cardinality(KeptIndices(df.rows))
       /\ \A nth \in 1..Len(df'.rows) :
            df'.rows[nth] = df.rows[NthKept(df.rows, nth)]
       /\ FilterRows(df'.rows, F_upper) = df'.rows
       /\ \A i \in 1..Len(c') : c'[i] = (df.rows[i].F < F_upper)]_vars

\* C5 witness: of two rows the filter dropped the first and kept the second,
\* a row with F below the threshold
C5_Witness ==
  /\ pc = "Binning"
  /\ c = <<FALSE, TRUE>>
  /\ Len(df.rows) = 1
  /\ df.rows[1].F = F_upper - 1

\* C8: when the figure is exported it holds one contour layer and one legend
\* entry per data set, in data set order, the i-th swatch has the colour of
\* the i-th contour, and the labels are K9+ black, K10+ red, Na7+ blue.
C8_LegendMatchesLayers ==
  pc \in {"SavePng", "SaveEps"} =>
    /\ Len(layers) = 3
    /\ Len(legend) = 3
    /\ \A i \in 1..3 :
         /\ layers[i].ds = DatasetOrder[i]
         /\ legend[i].fc = layers[i].color
    /\ [i \in 1..3 |-> <<layers[i].ds, legend[i].label, legend[i].fc>>]
         = << <<"k-9+", "K9+", "black">>,
              <<"k-10+", "K10+", "red">>,
              <<"na-7+", "Na7+", "blue">> >>

\* C8 witness: the figure is about to be written with its three layers
C8_Witness ==
  /\ pc = "SavePng"
  /\ Len(layers) = 3
  /\ legend # <<>>

\* one step of the pipeline state machine
StageOrder ==
  << "Loading", "Filtering", "Binning", "Smoothing", "Normalizing",
     "Rendering" >>
FinishOrder == <<"Legend", "PlotSettings", "SavePng", "SaveEps", "Close", "Done">>
PipelineStep ==
  \/ pc = "Idle" /\ pc' = "Loading" /\ k = 1 /\ k' = 1
  \/ \E i \in 1..(Len(StageOrder) - 1) :
       pc = StageOrder[i] /\ pc' = StageOrder[i + 1] /\ k' = k
  \/ pc = "Rendering" /\ k < 3 /\ pc' = "Loading" /\ k' = k + 1
  \/ pc = "Rendering" /\ k = 3 /\ pc' = "Legend" /\ k' = k
  \/ \E i \in 1..(Len(FinishOrder) - 1) :
       pc = FinishOrder[i] /\ pc' = FinishOrder[i + 1] /\ k' = k
       /\ Len(layers) = 3
\* a step to Aborted: an input or output error, or the normalizer on an
\* all-zero grid
AbortStep ==
  /\ pc' = "Aborted"
  /\ k' = k
  /\ layers' = layers
  /\ \/ pc = "Loading" /\ exc' = "FileNotFoundError"
     \/ pc = "Filtering" /\ "F" \notin df.cols /\ exc' = "KeyError"
     \/ pc = "Binning" /\ ~({"E", "n"} \subseteq df.cols) /\ exc' = "KeyError"
     \/ pc \in {"SavePng", "SaveEps"} /\ exc' = "OSError"
     \/ pc = "Normalizing" /\ AllZero(heatmap)

C7_ColorsCycle ==
  /\ \A i \in 1..Len(assigned) :
       assigned[i] = palette[((i - 1) % Len(palette)) + 1]
  /\ Len(assigned) > Len(palette) => assigned[Len(palette) + 1] = assigned[1]
  /\ exc = "none"
  /\ pc = "Assigned" => Len(assigned) = ndata

\* C7 witness: a palette of two colours has served a third data set
C7_Witness ==
  /\ Len(palette) = 2
  /\ Len(assigned) >= 3
  /\ assigned[3] = assigned[1]
  /\ warned

====
